---- MODULE Spec2Model ----
(***************************************************************************)
(* Model of booking.py: a store of members, inventory items and bookings,  *)
(* and the three request handlers import_data, book_item, cancel_booking.  *)
(*                                                                         *)
(* The store is the committed content of the three tables.  Row ids are    *)
(* SQLite rowids: a new row gets (largest id in the table) + 1.  Members   *)
(* and inventory rows are never deleted, so their tables are sequences     *)
(* indexed by id; bookings are deleted, so that table is a function from   *)
(* the live ids.  The text columns (name, surname, title, description) and *)
(* booking_datetime are not read by any handler and are left out.          *)
(***************************************************************************)
EXTENDS Integers, Sequences, FiniteSets, TLC

VARIABLES
    members,      \* table member: Seq of [booking_count, date_joined]
    inventory,    \* table inventory: Seq of [remaining_count, expiration_date]
    bookings,     \* table booking: set of [id, member_id, inventory_id]
    response,     \* the JSON body and status of the last request served
    last,         \* history: the last request and the counters it read
    imported,     \* history: the counters each row was imported with
    pc,           \* position of the request in progress (stepwise handlers)
    session,      \* the SQLAlchemy session of the request in progress
    inflight      \* the sessions of requests served at the same time

vars == <<members, inventory, bookings, response, last, imported, pc, session,
          inflight>>
store == <<members, inventory, bookings>>

(***************************************************************************)
(* Bounds of the model: the member and inventory rows the store may hold   *)
(* in total, the rows of one CSV file, and the largest booking id given.   *)
(***************************************************************************)
MaxRecords == 4
MaxRows == 2
MaxBookingId == 3

(***************************************************************************)
(* Program constants.                                                      *)
(***************************************************************************)
MAX_BOOKINGS == 2

(***************************************************************************)
(* CSV field values.  A field is None (column missing) or a string, given  *)
(* as its sequence of characters.                                          *)
(***************************************************************************)
None == [isNone |-> TRUE, s |-> <<>>]
Str(chars) == [isNone |-> FALSE, s |-> chars]

Digits == {"0", "1", "2", "3", "4", "5", "6", "7", "8", "9"}
DigitVal(c) ==
    CASE c = "0" -> 0 [] c = "1" -> 1 [] c = "2" -> 2 [] c = "3" -> 3
      [] c = "4" -> 4 [] c = "5" -> 5 [] c = "6" -> 6 [] c = "7" -> 7
      [] c = "8" -> 8 [] c = "9" -> 9

RECURSIVE lstrip(_)
lstrip(s) == IF s # <<>> /\ Head(s) = " " THEN lstrip(Tail(s)) ELSE s

RECURSIVE rstrip(_)
rstrip(s) ==
    IF s # <<>> /\ s[Len(s)] = " " THEN rstrip(SubSeq(s, 1, Len(s) - 1)) ELSE s

strip(s) == lstrip(rstrip(s))

RECURSIVE DecimalValue(_)
DecimalValue(s) ==
    IF s = <<>> THEN 0
    ELSE 10 * DecimalValue(SubSeq(s, 1, Len(s) - 1)) + DigitVal(s[Len(s)])

AllDigits(s) == s # <<>> /\ \A i \in 1..Len(s) : s[i] \in Digits

\* int(str): an optional sign followed by decimal digits; anything else
\* raises ValueError.
IntParses(s) ==
    \/ AllDigits(s)
    \/ s # <<>> /\ Head(s) \in {"-", "+"} /\ AllDigits(Tail(s))

IntOf(s) ==
    IF Head(s) = "-" THEN 0 - DecimalValue(Tail(s))
    ELSE IF Head(s) = "+" THEN DecimalValue(Tail(s))
    ELSE DecimalValue(s)

safe_int(value) ==
    IF value.isNone \/ value.s = <<>> \/ strip(value.s) = <<>> THEN 0
    ELSE IF IntParses(strip(value.s)) THEN IntOf(strip(value.s))
    ELSE 0

(***************************************************************************)
(* datetime.strptime.  A format is a sequence of directives ("%d") and     *)
(* literal characters.  Each directive consumes a prefix of the input that *)
(* its regular expression accepts; the whole input must be consumed; the   *)
(* fields found must then make a valid datetime.                           *)
(***************************************************************************)
Directives == {"%d", "%m", "%Y", "%y", "%H", "%M", "%S"}

NoFields == [Y |-> 1900, m |-> 1, d |-> 1, H |-> 0, M |-> 0, S |-> 0]

\* Does the directive's regular expression accept exactly the characters p?
DirectiveAccepts(dir, p) ==
    LET n == Len(p)
        v == DecimalValue(p)
    IN  CASE dir = "%d" ->
                \/ n = 2 /\ AllDigits(p) /\ v >= 1 /\ v <= 31
                \/ n = 1 /\ AllDigits(p) /\ v >= 1
                \/ n = 2 /\ p[1] = " " /\ p[2] \in Digits \ {"0"}
          [] dir = "%m" ->
                \/ n = 2 /\ AllDigits(p) /\ v >= 1 /\ v <= 12
                \/ n = 1 /\ AllDigits(p) /\ v >= 1
          [] dir = "%Y" -> n = 4 /\ AllDigits(p)
          [] dir = "%y" -> n = 2 /\ AllDigits(p)
          [] dir = "%H" ->
                \/ n = 2 /\ AllDigits(p) /\ v <= 23
                \/ n = 1 /\ AllDigits(p)
          [] dir = "%M" ->
                \/ n = 2 /\ AllDigits(p) /\ v <= 59
                \/ n = 1 /\ AllDigits(p)
          [] dir = "%S" ->
                \/ n = 2 /\ AllDigits(p) /\ v <= 61
                \/ n = 1 /\ AllDigits(p)

\* The value a directive's match contributes to the fields found so far.
WithField(found, dir, p) ==
    LET v == DecimalValue(strip(p))
    IN  CASE dir = "%d" -> [found EXCEPT !.d = v]
          [] dir = "%m" -> [found EXCEPT !.m = v]
          [] dir = "%Y" -> [found EXCEPT !.Y = v]
          [] dir = "%y" -> [found EXCEPT !.Y = IF v <= 68 THEN 2000 + v ELSE 1900 + v]
          [] dir = "%H" -> [found EXCEPT !.H = v]
          [] dir = "%M" -> [found EXCEPT !.M = v]
          [] dir = "%S" -> [found EXCEPT !.S = v]

\* All ways the format matches the whole of s, as the sets of fields found.
RECURSIVE Matches(_, _, _)
Matches(fmt, s, found) ==
    IF fmt = <<>> THEN (IF s = <<>> THEN {found} ELSE {})
    ELSE IF Head(fmt) \in Directives
    THEN UNION { IF DirectiveAccepts(Head(fmt), SubSeq(s, 1, n))
                 THEN Matches(Tail(fmt), SubSeq(s, n + 1, Len(s)),
                              WithField(found, Head(fmt), SubSeq(s, 1, n)))
                 ELSE {}
                 : n \in 1..(IF Len(s) < 4 THEN Len(s) ELSE 4) }
    ELSE IF s # <<>> /\ Head(s) = Head(fmt)
    THEN Matches(Tail(fmt), Tail(s), found)
    ELSE {}

IsLeap(y) == y % 4 = 0 /\ (y % 100 # 0 \/ y % 400 = 0)

DaysInMonth(y, m) ==
    IF m = 2 THEN (IF IsLeap(y) THEN 29 ELSE 28)
    ELSE IF m \in {4, 6, 9, 11} THEN 30
    ELSE 31

\* The datetime constructor's range checks.
ValidDateTime(f) ==
    /\ f.Y >= 1
    /\ f.d <= DaysInMonth(f.Y, f.m)
    /\ f.S <= 59

\* strptime(s, fmt) returns a datetime, or raises ValueError.
strptime_ok(s, fmt) == \E f \in Matches(fmt, s, NoFields) : ValidDateTime(f)
strptime(s, fmt) ==
    LET f == CHOOSE g \in Matches(fmt, s, NoFields) : ValidDateTime(g)
    IN  [year |-> f.Y, month |-> f.m, day |-> f.d,
         hour |-> f.H, minute |-> f.M, second |-> f.S]

formats == <<
    <<"%Y", "-", "%m", "-", "%d", "T", "%H", ":", "%M", ":", "%S">>,
    <<"%d", "/", "%m", "/", "%Y">>,
    <<"%d", "-", "%m", "-", "%Y">>,
    <<"%Y", "-", "%m", "-", "%d">>,
    <<"%d", "/", "%m", "/", "%y">>,
    <<"%d", "-", "%m", "-", "%y">> >>

\* str(value): None prints as the four characters of "None".
str(value) == IF value.isNone THEN <<"N", "o", "n", "e">> ELSE value.s

\* parse_date: the first format that parses wins; ok = FALSE is the
\* ValueError raised when none does.
NoDate == [year |-> 0, month |-> 0, day |-> 0, hour |-> 0, minute |-> 0, second |-> 0]
parse_date(value) ==
    LET date_str == strip(str(value))
        hits == {i \in 1..Len(formats) : strptime_ok(date_str, formats[i])}
    IN  IF hits = {} THEN [ok |-> FALSE, dt |-> NoDate]
        ELSE LET first == CHOOSE i \in hits : \A j \in hits : i <= j
             IN  [ok |-> TRUE, dt |-> strptime(date_str, formats[first])]

(***************************************************************************)
(* The CSV sources.  A file is missing, or holds at most MaxRows           *)
(* consecutive rows of the sample sheet below (taken cyclically, so every  *)
(* row can be first, and a row that fails to parse is followed and         *)
(* preceded by rows that parse); a row maps column names to field values.  *)
(***************************************************************************)
MemberRows == <<
    [booking_count |-> Str(<<"0">>),
     date_joined |-> Str(<<"2", "0", "2", "4", "-", "0", "1", "-", "0", "5", "T",
                           "1", "0", ":", "0", "0", ":", "0", "0">>)],
    [booking_count |-> None,
     date_joined |-> Str(<<"3", "1", "/", "0", "2", "/", "2", "0", "2", "4">>)],
    [booking_count |-> Str(<<" ", "-", "1">>),
     date_joined |-> Str(<<"0", "5", "-", "0", "1", "-", "9", "9">>)],
    [booking_count |-> Str(<<"3", " ">>),
     date_joined |-> Str(<<" ", "2", "9", "/", "0", "2", "/", "2", "0", "2", "4">>)] >>

InventoryRows == <<
    [remaining_count |-> Str(<<" ", "2">>),
     expiration_date |-> Str(<<"1", "9", "/", "1", "1", "/", "2", "0", "3", "0">>)],
    [remaining_count |-> Str(<<"1">>),
     expiration_date |-> None],
    [remaining_count |-> Str(<<"-", "1">>),
     expiration_date |-> Str(<<"2", "0", "3", "0", "-", "1", "1", "-", "1", "9">>)] >>

\* The k rows of the sheet that start at row i.
Rows(sheet, i, k) == [j \in 1..k |-> sheet[((i + j - 2) % Len(sheet)) + 1]]

Missing == [exists |-> FALSE, rows |-> <<>>]
File(rows) == [exists |-> TRUE, rows |-> rows]

MemberFiles ==
    {Missing} \cup
    {File(Rows(MemberRows, i, k)) : i \in 1..Len(MemberRows), k \in 0..MaxRows}
InventoryFiles ==
    {Missing} \cup
    {File(Rows(InventoryRows, i, k)) : i \in 1..Len(InventoryRows), k \in 0..MaxRows}

(***************************************************************************)
(* import_data's two passes: each row becomes a record unless parse_date   *)
(* raises, in which case the row is skipped and the pass goes on.          *)
(***************************************************************************)
MemberOf(row) ==
    [booking_count |-> safe_int(row.booking_count),
     date_joined |-> parse_date(row.date_joined).dt]

InventoryOf(row) ==
    [remaining_count |-> safe_int(row.remaining_count),
     expiration_date |-> parse_date(row.expiration_date).dt]

\* Faulty variant: the first failing row ends the pass ("break" for "continue").
RECURSIVE MemberPass_stops_at_failure(_)
MemberPass_stops_at_failure(rows) ==
    IF rows = <<>> THEN <<>>
    ELSE IF parse_date(Head(rows).date_joined).ok
    THEN <<MemberOf(Head(rows))>> \o MemberPass_stops_at_failure(Tail(rows))
    ELSE <<>>

RECURSIVE MemberPass(_)
MemberPass(rows) ==
    IF rows = <<>> THEN <<>>
    ELSE IF parse_date(Head(rows).date_joined).ok
    THEN <<MemberOf(Head(rows))>> \o MemberPass(Tail(rows))
    ELSE MemberPass(Tail(rows))

RECURSIVE InventoryPass(_)
InventoryPass(rows) ==
    IF rows = <<>> THEN <<>>
    ELSE IF parse_date(Head(rows).expiration_date).ok
    THEN <<InventoryOf(Head(rows))>> \o InventoryPass(Tail(rows))
    ELSE InventoryPass(Tail(rows))

\* The rows whose date field parse_date accepts.
ValidRows(rows, date) == {k \in DOMAIN rows : parse_date(rows[k][date]).ok}

\* These rows have a row whose date fails before one whose date parses.
SkipsThenKeeps(rows, date) ==
    \E i, j \in DOMAIN rows :
        /\ i < j
        /\ ~parse_date(rows[i][date]).ok
        /\ parse_date(rows[j][date]).ok

\* The passes over every sample file, computed once.
PendingMembers == [f \in MemberFiles |-> MemberPass(f.rows)]
PendingInventory == [f \in InventoryFiles |-> InventoryPass(f.rows)]
ValidMembers ==
    [f \in MemberFiles |-> Cardinality(ValidRows(f.rows, "date_joined"))]
ValidInventory ==
    [f \in InventoryFiles |-> Cardinality(ValidRows(f.rows, "expiration_date"))]
SkipsMembers == [f \in MemberFiles |-> SkipsThenKeeps(f.rows, "date_joined")]
SkipsInventory == [f \in InventoryFiles |-> SkipsThenKeeps(f.rows, "expiration_date")]

(***************************************************************************)
(* Responses (jsonify(...), status).                                       *)
(***************************************************************************)
Ok(message) == [status |-> 200, message |-> message, error |-> "", booking_id |-> 0]
Booked(id) ==
    [status |-> 200, message |-> "Booking successful", error |-> "", booking_id |-> id]
Err(status, error) ==
    [status |-> status, message |-> "", error |-> error, booking_id |-> 0]
\* An exception that leaves the handler: Flask answers 500 and the
\* application-context teardown removes the session, rolling it back.
Unhandled == Err(500, "Internal Server Error")

NotFound == Err(404, "Member or item not found")
MemberCapacityExceeded == Err(400, "Maximum bookings reached")
ItemCapacityExceeded == Err(400, "Item not available")

NoRequest == [status |-> 0, message |-> "", error |-> "", booking_id |-> 0]
\* last.kind: "book" after a successful create, "cancelled" after the cancel
\* of that very booking right after it, "import" after an import request,
\* "none" otherwise.  After an import, found holds the files the request
\* opened, commit is "done", "failed" or "none" (not reached), valid_members
\* and valid_inventory count the rows read whose date parses, and skipped
\* names the passes that met a failing row before a row whose date parses.
NoBooking == [kind |-> "none", booking_id |-> 0, member_id |-> 0, inventory_id |-> 0,
              booking_count |-> 0, remaining_count |-> 0,
              found |-> {}, commit |-> "none",
              valid_members |-> 0, valid_inventory |-> 0, skipped |-> {}]
NoSession == [member_id |-> 0, inventory_id |-> 0, booking_id |-> 0,
              booking_count |-> 0, remaining_count |-> 0]
\* The requests that the threaded server may be serving at the same time.
Requests == {1, 2}

\* Query.get: the row with that primary key, if any.
HasMember(id) == id \in 1..Len(members)
HasItem(id) == id \in 1..Len(inventory)
HasBooking(id) == \E b \in bookings : b.id = id
BookingRow(id) == CHOOSE b \in bookings : b.id = id

\* The rowid SQLite gives the next INSERT into booking.
NextBookingId ==
    IF bookings = {} THEN 1
    ELSE 1 + (CHOOSE n \in {b.id : b \in bookings} : \A b \in bookings : b.id <= n)

BookingsOfMember(id) == {b \in bookings : b.member_id = id}
BookingsOfItem(id) == {b \in bookings : b.inventory_id = id}

RECURSIVE Column(_, _)
Column(rows, name) ==
    IF rows = <<>> THEN <<>> ELSE <<Head(rows)[name]>> \o Column(Tail(rows), name)

Init ==
    /\ members = <<>>
    /\ inventory = <<>>
    /\ bookings = {}
    /\ response = NoRequest
    /\ last = NoBooking
    /\ imported = [booking_count |-> <<>>, remaining_count |-> <<>>]
    /\ pc = "idle"
    /\ session = NoSession
    /\ inflight = [request \in Requests |-> NoSession]

\* What an import request met before it answered: inventory.csv is opened
\* only when member.csv was found, and the commit is reached only when both
\* were.
Imported(member_csv, inventory_csv, commit_ok) ==
    [NoBooking EXCEPT
        !.kind = "import",
        !.found =
            {file \in {"member.csv"} : member_csv.exists} \cup
            {file \in {"inventory.csv"} : member_csv.exists /\ inventory_csv.exists},
        !.commit =
            IF ~(member_csv.exists /\ inventory_csv.exists) THEN "none"
            ELSE IF commit_ok THEN "done" ELSE "failed",
        !.valid_members = ValidMembers[member_csv],
        !.valid_inventory =
            IF member_csv.exists THEN ValidInventory[inventory_csv] ELSE 0,
        !.skipped =
            {pass \in {"member"} : SkipsMembers[member_csv]} \cup
            {pass \in {"inventory"} : member_csv.exists /\ SkipsInventory[inventory_csv]}]

\* Faulty variant: the member pass is committed before inventory.csv is opened.
import_data_commits_members_first(member_csv, inventory_csv, commit_ok) ==
    /\ pc = "idle"
    /\ last' = Imported(member_csv, inventory_csv, commit_ok)
    /\ UNCHANGED <<bookings, pc, session, inflight>>
    /\ IF ~member_csv.exists
       THEN /\ response' = Err(404, "member.csv not found")
            /\ UNCHANGED <<members, inventory, imported>>
       ELSE IF ~inventory_csv.exists
       THEN /\ response' = Err(404, "inventory.csv not found")
            /\ members' = members \o PendingMembers[member_csv]
            /\ imported' =
                 [imported EXCEPT !.booking_count =
                     @ \o Column(PendingMembers[member_csv], "booking_count")]
            /\ UNCHANGED inventory
       ELSE IF ~commit_ok
       THEN /\ response' = Err(500, "Import failed")
            /\ UNCHANGED <<members, inventory, imported>>
       ELSE /\ members' = members \o PendingMembers[member_csv]
            /\ inventory' = inventory \o PendingInventory[inventory_csv]
            /\ imported' =
                 [booking_count |-> imported.booking_count
                        \o Column(PendingMembers[member_csv], "booking_count"),
                  remaining_count |-> imported.remaining_count
                        \o Column(PendingInventory[inventory_csv], "remaining_count")]
            /\ response' = Ok("Data imported successfully")

\* Faulty variant: a failing commit is answered without the rollback, and the
\* member rows already flushed stay.
import_data_without_rollback(member_csv, inventory_csv, commit_ok) ==
    /\ pc = "idle"
    /\ last' = Imported(member_csv, inventory_csv, commit_ok)
    /\ UNCHANGED <<bookings, pc, session, inflight>>
    /\ IF ~member_csv.exists
       THEN /\ response' = Err(404, "member.csv not found")
            /\ UNCHANGED <<members, inventory, imported>>
       ELSE IF ~inventory_csv.exists
       THEN /\ response' = Err(404, "inventory.csv not found")
            /\ UNCHANGED <<members, inventory, imported>>
       ELSE IF ~commit_ok
       THEN /\ response' = Err(500, "Import failed")
            /\ members' = members \o PendingMembers[member_csv]
            /\ imported' =
                 [imported EXCEPT !.booking_count =
                     @ \o Column(PendingMembers[member_csv], "booking_count")]
            /\ UNCHANGED inventory
       ELSE /\ members' = members \o PendingMembers[member_csv]
            /\ inventory' = inventory \o PendingInventory[inventory_csv]
            /\ imported' =
                 [booking_count |-> imported.booking_count
                        \o Column(PendingMembers[member_csv], "booking_count"),
                  remaining_count |-> imported.remaining_count
                        \o Column(PendingInventory[inventory_csv], "remaining_count")]
            /\ response' = Ok("Data imported successfully")

\* Faulty variant: rows equal to a stored record are not added again.
import_data_skips_known_rows(member_csv, inventory_csv, commit_ok) ==
    /\ pc = "idle"
    /\ last' = Imported(member_csv, inventory_csv, commit_ok)
    /\ UNCHANGED <<bookings, pc, session, inflight>>
    /\ IF ~member_csv.exists
       THEN /\ response' = Err(404, "member.csv not found")
            /\ UNCHANGED <<members, inventory, imported>>
       ELSE IF ~inventory_csv.exists
       THEN /\ response' = Err(404, "inventory.csv not found")
            /\ UNCHANGED <<members, inventory, imported>>
       ELSE IF ~commit_ok
       THEN /\ response' = Err(500, "Import failed")
            /\ UNCHANGED <<members, inventory, imported>>
       ELSE LET known(rows, row) == \E k \in DOMAIN rows : rows[k] = row
                new_members ==
                    SelectSeq(PendingMembers[member_csv],
                              LAMBDA row : ~known(members, row))
                new_inventory ==
                    SelectSeq(PendingInventory[inventory_csv],
                              LAMBDA row : ~known(inventory, row))
            IN  /\ members' = members \o new_members
                /\ inventory' = inventory \o new_inventory
                /\ imported' =
                     [booking_count |-> imported.booking_count
                            \o Column(new_members, "booking_count"),
                      remaining_count |-> imported.remaining_count
                            \o Column(new_inventory, "remaining_count")]
                /\ response' = Ok("Data imported successfully")

\* Faulty variant: the member and inventory tables are emptied before the
\* new rows are stored.
import_data_replaces_tables(member_csv, inventory_csv, commit_ok) ==
    /\ pc = "idle"
    /\ last' = Imported(member_csv, inventory_csv, commit_ok)
    /\ UNCHANGED <<bookings, pc, session, inflight>>
    /\ IF ~member_csv.exists
       THEN /\ response' = Err(404, "member.csv not found")
            /\ UNCHANGED <<members, inventory, imported>>
       ELSE IF ~inventory_csv.exists
       THEN /\ response' = Err(404, "inventory.csv not found")
            /\ UNCHANGED <<members, inventory, imported>>
       ELSE IF ~commit_ok
       THEN /\ response' = Err(500, "Import failed")
            /\ UNCHANGED <<members, inventory, imported>>
       ELSE /\ members' = PendingMembers[member_csv]
            /\ inventory' = PendingInventory[inventory_csv]
            /\ imported' =
                 [booking_count |-> Column(PendingMembers[member_csv], "booking_count"),
                  remaining_count |->
                      Column(PendingInventory[inventory_csv], "remaining_count")]
            /\ response' = Ok("Data imported successfully")

(***************************************************************************)
(* POST /import, as one step.  commit_ok = FALSE is db.session.commit()    *)
(* raising, which the handler catches and answers with a rollback.         *)
(***************************************************************************)
import_data(member_csv, inventory_csv, commit_ok) ==
    /\ pc = "idle"
    /\ last' = Imported(member_csv, inventory_csv, commit_ok)
    /\ UNCHANGED <<bookings, pc, session, inflight>>
    /\ IF ~member_csv.exists
       THEN /\ response' = Err(404, "member.csv not found")
            /\ UNCHANGED <<members, inventory, imported>>
       ELSE IF ~inventory_csv.exists
       THEN /\ response' = Err(404, "inventory.csv not found")
            /\ UNCHANGED <<members, inventory, imported>>
       ELSE IF ~commit_ok
       THEN /\ response' = Err(500, "Import failed")
            /\ UNCHANGED <<members, inventory, imported>>
       ELSE /\ members' = members \o PendingMembers[member_csv]
            /\ inventory' = inventory \o PendingInventory[inventory_csv]
            /\ imported' =
                 [booking_count |-> imported.booking_count
                        \o Column(PendingMembers[member_csv], "booking_count"),
                  remaining_count |-> imported.remaining_count
                        \o Column(PendingInventory[inventory_csv], "remaining_count")]
            /\ response' = Ok("Data imported successfully")

(***************************************************************************)
(* POST /book, as one step.                                                *)
(***************************************************************************)

\* An error return of book_item: nothing was changed.
book_item_rejected(error) ==
    /\ response' = error
    /\ last' = NoBooking
    /\ UNCHANGED store

\* The Booking row, the two counter updates and the commit.
book_item_commits(member_id, inventory_id) ==
    /\ NextBookingId <= MaxBookingId
    /\ bookings' = bookings \cup
         {[id |-> NextBookingId, member_id |-> member_id,
           inventory_id |-> inventory_id]}
    /\ members' = [members EXCEPT ![member_id].booking_count = @ + 1]
    /\ inventory' = [inventory EXCEPT ![inventory_id].remaining_count = @ - 1]
    /\ response' = Booked(NextBookingId)
    /\ last' = [NoBooking EXCEPT
                    !.kind = "book",
                    !.booking_id = NextBookingId,
                    !.member_id = member_id,
                    !.inventory_id = inventory_id,
                    !.booking_count = members[member_id].booking_count,
                    !.remaining_count = inventory[inventory_id].remaining_count]

\* Faulty variant: only the member is checked for existence ("if not member:"); the
\* missing item then raises AttributeError at item.remaining_count.
book_item_checks_member_only(member_id, inventory_id) ==
    /\ pc = "idle"
    /\ UNCHANGED <<imported, pc, session, inflight>>
    /\ IF ~HasMember(member_id)
       THEN book_item_rejected(NotFound)
       ELSE IF members[member_id].booking_count >= MAX_BOOKINGS
       THEN book_item_rejected(MemberCapacityExceeded)
       ELSE IF ~HasItem(inventory_id)
       THEN book_item_rejected(Unhandled)
       ELSE IF inventory[inventory_id].remaining_count <= 0
       THEN book_item_rejected(ItemCapacityExceeded)
       ELSE book_item_commits(member_id, inventory_id)

\* Faulty variant: the member limit is tested with > instead of >=.
book_item_limit_off_by_one(member_id, inventory_id) ==
    /\ pc = "idle"
    /\ UNCHANGED <<imported, pc, session, inflight>>
    /\ IF ~HasMember(member_id) \/ ~HasItem(inventory_id)
       THEN book_item_rejected(NotFound)
       ELSE IF members[member_id].booking_count > MAX_BOOKINGS
       THEN book_item_rejected(MemberCapacityExceeded)
       ELSE IF inventory[inventory_id].remaining_count <= 0
       THEN book_item_rejected(ItemCapacityExceeded)
       ELSE book_item_commits(member_id, inventory_id)

\* Faulty variant: the stock is tested with < instead of <=.
book_item_stock_off_by_one(member_id, inventory_id) ==
    /\ pc = "idle"
    /\ UNCHANGED <<imported, pc, session, inflight>>
    /\ IF ~HasMember(member_id) \/ ~HasItem(inventory_id)
       THEN book_item_rejected(NotFound)
       ELSE IF members[member_id].booking_count >= MAX_BOOKINGS
       THEN book_item_rejected(MemberCapacityExceeded)
       ELSE IF inventory[inventory_id].remaining_count < 0
       THEN book_item_rejected(ItemCapacityExceeded)
       ELSE book_item_commits(member_id, inventory_id)

\* Faulty variant: the stock is tested before the member limit.
book_item_checks_stock_first(member_id, inventory_id) ==
    /\ pc = "idle"
    /\ UNCHANGED <<imported, pc, session, inflight>>
    /\ IF ~HasMember(member_id) \/ ~HasItem(inventory_id)
       THEN book_item_rejected(NotFound)
       ELSE IF inventory[inventory_id].remaining_count <= 0
       THEN book_item_rejected(ItemCapacityExceeded)
       ELSE IF members[member_id].booking_count >= MAX_BOOKINGS
       THEN book_item_rejected(MemberCapacityExceeded)
       ELSE book_item_commits(member_id, inventory_id)

book_item(member_id, inventory_id) ==
    /\ pc = "idle"
    /\ UNCHANGED <<imported, pc, session, inflight>>
    /\ IF ~HasMember(member_id) \/ ~HasItem(inventory_id)
       THEN book_item_rejected(NotFound)
       ELSE IF members[member_id].booking_count >= MAX_BOOKINGS
       THEN book_item_rejected(MemberCapacityExceeded)
       ELSE IF inventory[inventory_id].remaining_count <= 0
       THEN book_item_rejected(ItemCapacityExceeded)
       ELSE book_item_commits(member_id, inventory_id)

(***************************************************************************)
(* POST /cancel/<booking_id>, as one step.                                 *)
(***************************************************************************)

\* History: "cancelled" for the cancel of the booking the previous request
\* made, "cancel" for any other cancel that found its booking, "again" for a
\* cancel that asks for the booking the previous request cancelled.
AfterCancel(booking_id) ==
    IF last.kind = "book" /\ last.booking_id = booking_id
    THEN [last EXCEPT !.kind = "cancelled"]
    ELSE IF HasBooking(booking_id)
    THEN [NoBooking EXCEPT !.kind = "cancel",
                           !.booking_id = booking_id,
                           !.member_id = BookingRow(booking_id).member_id,
                           !.inventory_id = BookingRow(booking_id).inventory_id]
    ELSE IF last.kind \in {"cancel", "cancelled"} /\ last.booking_id = booking_id
    THEN [NoBooking EXCEPT !.kind = "again", !.booking_id = booking_id]
    ELSE NoBooking

\* Faulty variant: the member's booking_count is not decremented.
cancel_booking_keeps_count(booking_id) ==
    /\ pc = "idle"
    /\ last' = AfterCancel(booking_id)
    /\ UNCHANGED <<imported, pc, session, inflight>>
    /\ IF ~HasBooking(booking_id)
       THEN /\ response' = Err(404, "Booking not found")
            /\ UNCHANGED store
       ELSE LET booking == BookingRow(booking_id)
            IN  /\ members' = members
                /\ inventory' =
                     [inventory EXCEPT ![booking.inventory_id].remaining_count = @ + 1]
                /\ bookings' = bookings \ {booking}
                /\ response' = Ok("Booking cancelled successfully")

\* Faulty variant: the item's remaining_count is not incremented.
cancel_booking_keeps_stock(booking_id) ==
    /\ pc = "idle"
    /\ last' = AfterCancel(booking_id)
    /\ UNCHANGED <<imported, pc, session, inflight>>
    /\ IF ~HasBooking(booking_id)
       THEN /\ response' = Err(404, "Booking not found")
            /\ UNCHANGED store
       ELSE LET booking == BookingRow(booking_id)
            IN  /\ members' =
                     [members EXCEPT ![booking.member_id].booking_count = @ - 1]
                /\ inventory' = inventory
                /\ bookings' = bookings \ {booking}
                /\ response' = Ok("Booking cancelled successfully")

\* Faulty variant: the Booking row is not deleted.
cancel_booking_keeps_row(booking_id) ==
    /\ pc = "idle"
    /\ last' = AfterCancel(booking_id)
    /\ UNCHANGED <<imported, pc, session, inflight>>
    /\ IF ~HasBooking(booking_id)
       THEN /\ response' = Err(404, "Booking not found")
            /\ UNCHANGED store
       ELSE LET booking == BookingRow(booking_id)
            IN  /\ members' =
                     [members EXCEPT ![booking.member_id].booking_count = @ - 1]
                /\ inventory' =
                     [inventory EXCEPT ![booking.inventory_id].remaining_count = @ + 1]
                /\ bookings' = bookings
                /\ response' = Ok("Booking cancelled successfully")

\* Faulty variant: the row is used without the "if not booking" test, so
\* booking.member raises AttributeError when there is no such booking.
cancel_booking_unchecked(booking_id) ==
    /\ pc = "idle"
    /\ last' = AfterCancel(booking_id)
    /\ UNCHANGED <<imported, pc, session, inflight>>
    /\ IF ~HasBooking(booking_id)
       THEN /\ response' = Unhandled
            /\ UNCHANGED store
       ELSE LET booking == BookingRow(booking_id)
            IN  /\ members' =
                     [members EXCEPT ![booking.member_id].booking_count = @ - 1]
                /\ inventory' =
                     [inventory EXCEPT ![booking.inventory_id].remaining_count = @ + 1]
                /\ bookings' = bookings \ {booking}
                /\ response' = Ok("Booking cancelled successfully")

\* Faulty variant: a cancelled booking is only marked, and a second cancel
\* of it is served like the first.
cancel_booking_refunds_again(booking_id) ==
    /\ pc = "idle"
    /\ last' = AfterCancel(booking_id)
    /\ UNCHANGED <<imported, pc, session, inflight>>
    /\ IF HasBooking(booking_id)
       THEN LET booking == BookingRow(booking_id)
            IN  /\ members' =
                     [members EXCEPT ![booking.member_id].booking_count = @ - 1]
                /\ inventory' =
                     [inventory EXCEPT ![booking.inventory_id].remaining_count = @ + 1]
                /\ bookings' = bookings \ {booking}
                /\ response' = Ok("Booking cancelled successfully")
       ELSE IF last.kind \in {"cancel", "cancelled"} /\ last.booking_id = booking_id
       THEN /\ members' =
                 [members EXCEPT ![last.member_id].booking_count = @ - 1]
            /\ inventory' =
                 [inventory EXCEPT ![last.inventory_id].remaining_count = @ + 1]
            /\ UNCHANGED bookings
            /\ response' = Ok("Booking cancelled successfully")
       ELSE /\ response' = Err(404, "Booking not found")
            /\ UNCHANGED store

\* Faulty variant: the cancel deletes every booking of the member.
cancel_booking_deletes_all_of_member(booking_id) ==
    /\ pc = "idle"
    /\ last' = AfterCancel(booking_id)
    /\ UNCHANGED <<imported, pc, session, inflight>>
    /\ IF ~HasBooking(booking_id)
       THEN /\ response' = Err(404, "Booking not found")
            /\ UNCHANGED store
       ELSE LET booking == BookingRow(booking_id)
            IN  /\ members' =
                     [members EXCEPT ![booking.member_id].booking_count = @ - 1]
                /\ inventory' =
                     [inventory EXCEPT ![booking.inventory_id].remaining_count = @ + 1]
                /\ bookings' = bookings \ BookingsOfMember(booking.member_id)
                /\ response' = Ok("Booking cancelled successfully")

cancel_booking(booking_id) ==
    /\ pc = "idle"
    /\ last' = AfterCancel(booking_id)
    /\ UNCHANGED <<imported, pc, session, inflight>>
    /\ IF ~HasBooking(booking_id)
       THEN /\ response' = Err(404, "Booking not found")
            /\ UNCHANGED store
       ELSE LET booking == BookingRow(booking_id)
            IN  /\ members' =
                     [members EXCEPT ![booking.member_id].booking_count = @ - 1]
                /\ inventory' =
                     [inventory EXCEPT ![booking.inventory_id].remaining_count = @ + 1]
                /\ bookings' = bookings \ {booking}
                /\ response' = Ok("Booking cancelled successfully")

\* The request inputs tried: every id in use and one that is not.
MemberIds == 1..(Len(members) + 1)
InventoryIds == 1..(Len(inventory) + 1)
BookingIds == 1..(MaxBookingId + 1)

\* The sample files whose valid rows still fit a store of MaxRecords member
\* and inventory rows.
MemberFilesAdding ==
    [n \in 0..MaxRecords |-> {f \in MemberFiles : Len(PendingMembers[f]) <= n}]
InventoryFilesAdding ==
    [n \in 0..MaxRecords |-> {f \in InventoryFiles : Len(PendingInventory[f]) <= n}]

\* A missing member.csv ends the request before inventory.csv is opened, and
\* a missing file ends it before the commit: the inputs not read are fixed.
Import ==
    \E member_csv \in MemberFilesAdding[MaxRecords - Len(members) - Len(inventory)] :
      \E inventory_csv \in
            IF member_csv.exists
            THEN InventoryFilesAdding[MaxRecords - Len(members) - Len(inventory)
                                        - Len(PendingMembers[member_csv])]
            ELSE {Missing} :
        \E commit_ok \in IF member_csv.exists /\ inventory_csv.exists
                          THEN BOOLEAN ELSE {TRUE} :
            import_data(member_csv, inventory_csv, commit_ok)
Book ==
    \E member_id \in MemberIds, inventory_id \in InventoryIds :
        book_item(member_id, inventory_id)
Cancel ==
    \E booking_id \in BookingIds :
        cancel_booking(booking_id)

Next == Import \/ Book \/ Cancel

Spec == Init /\ [][Next]_vars

(***************************************************************************)
(* The same two handlers step by step, one request at a time.  Between the *)
(* steps the tables hold what the database has committed; what the handler *)
(* has changed so far lives in its session and reaches the tables only at  *)
(* db.session.commit(), in one transaction.                                *)
(***************************************************************************)

\* book_item up to db.session.add(booking): the queries, the checks and the
\* assignments to the loaded objects.
book_item_begin(member_id, inventory_id) ==
    /\ pc = "idle"
    /\ last' = NoBooking
    /\ UNCHANGED <<store, imported, inflight>>
    /\ IF ~HasMember(member_id) \/ ~HasItem(inventory_id)
       THEN /\ response' = NotFound
            /\ UNCHANGED <<pc, session>>
       ELSE IF members[member_id].booking_count >= MAX_BOOKINGS
       THEN /\ response' = MemberCapacityExceeded
            /\ UNCHANGED <<pc, session>>
       ELSE IF inventory[inventory_id].remaining_count <= 0
       THEN /\ response' = ItemCapacityExceeded
            /\ UNCHANGED <<pc, session>>
       ELSE /\ session' =
                 [member_id |-> member_id, inventory_id |-> inventory_id,
                  booking_id |-> 0,
                  booking_count |-> members[member_id].booking_count + 1,
                  remaining_count |-> inventory[inventory_id].remaining_count - 1]
            /\ pc' = "book_commit"
            /\ response' = NoRequest

\* Faulty variant: the Booking row is committed on its own, before the counters.
book_item_commit_row_only(commit_ok) ==
    /\ pc = "book_commit"
    /\ pc' = "idle"
    /\ session' = NoSession
    /\ last' = NoBooking
    /\ UNCHANGED <<imported, inflight>>
    /\ IF commit_ok
       THEN /\ NextBookingId <= MaxBookingId
            /\ bookings' = bookings \cup
                 {[id |-> NextBookingId, member_id |-> session.member_id,
                   inventory_id |-> session.inventory_id]}
            /\ UNCHANGED <<members, inventory>>
            /\ response' = Booked(NextBookingId)
       ELSE /\ response' = Unhandled
            /\ UNCHANGED store

\* db.session.commit() of book_item: the INSERT and the two UPDATEs in one
\* transaction, or none of them when the commit raises.
book_item_commit(commit_ok) ==
    /\ pc = "book_commit"
    /\ pc' = "idle"
    /\ session' = NoSession
    /\ last' = NoBooking
    /\ UNCHANGED <<imported, inflight>>
    /\ IF commit_ok
       THEN /\ NextBookingId <= MaxBookingId
            /\ bookings' = bookings \cup
                 {[id |-> NextBookingId, member_id |-> session.member_id,
                   inventory_id |-> session.inventory_id]}
            /\ members' =
                 [members EXCEPT ![session.member_id].booking_count =
                                     session.booking_count]
            /\ inventory' =
                 [inventory EXCEPT ![session.inventory_id].remaining_count =
                                       session.remaining_count]
            /\ response' = Booked(NextBookingId)
       ELSE /\ response' = Unhandled
            /\ UNCHANGED store

\* cancel_booking up to db.session.delete(booking).
cancel_booking_begin(booking_id) ==
    /\ pc = "idle"
    /\ last' = NoBooking
    /\ UNCHANGED <<store, imported, inflight>>
    /\ IF ~HasBooking(booking_id)
       THEN /\ response' = Err(404, "Booking not found")
            /\ UNCHANGED <<pc, session>>
       ELSE LET booking == BookingRow(booking_id)
            IN  /\ session' =
                     [member_id |-> booking.member_id,
                      inventory_id |-> booking.inventory_id,
                      booking_id |-> booking_id,
                      booking_count |-> members[booking.member_id].booking_count - 1,
                      remaining_count |->
                          inventory[booking.inventory_id].remaining_count + 1]
                /\ pc' = "cancel_commit"
                /\ response' = NoRequest

\* db.session.commit() of cancel_booking: the DELETE and the two UPDATEs in
\* one transaction, or none of them when the commit raises.
cancel_booking_commit(commit_ok) ==
    /\ pc = "cancel_commit"
    /\ pc' = "idle"
    /\ session' = NoSession
    /\ last' = NoBooking
    /\ UNCHANGED <<imported, inflight>>
    /\ IF commit_ok
       THEN /\ bookings' = {b \in bookings : b.id # session.booking_id}
            /\ members' =
                 [members EXCEPT ![session.member_id].booking_count =
                                     session.booking_count]
            /\ inventory' =
                 [inventory EXCEPT ![session.inventory_id].remaining_count =
                                       session.remaining_count]
            /\ response' = Ok("Booking cancelled successfully")
       ELSE /\ response' = Unhandled
            /\ UNCHANGED store

BookBegin ==
    \E member_id \in MemberIds, inventory_id \in InventoryIds :
        book_item_begin(member_id, inventory_id)
BookCommit == \E commit_ok \in BOOLEAN : book_item_commit(commit_ok)
CancelBegin == \E booking_id \in BookingIds : cancel_booking_begin(booking_id)
CancelCommit == \E commit_ok \in BOOLEAN : cancel_booking_commit(commit_ok)

NextTxn == Import \/ BookBegin \/ BookCommit \/ CancelBegin \/ CancelCommit

SpecTxn == Init /\ [][NextTxn]_vars

(***************************************************************************)
(* book_item served for two requests at once.  Each request has its own    *)
(* session: it loads the member and the item, tests them and assigns the   *)
(* counters in its own objects, and its commit later writes those values   *)
(* (UPDATE ... SET booking_count = <value>) and inserts its Booking row.   *)
(* Nothing orders the reads of one request after the commit of the other.  *)
(***************************************************************************)
InFlight == {request \in Requests : inflight[request] # NoSession}

\* book_item up to db.session.add(booking), in the session of this request.
book_item_reads(request, member_id, inventory_id) ==
    /\ pc = "idle"
    /\ inflight[request] = NoSession
    /\ last' = NoBooking
    /\ UNCHANGED <<store, imported, pc, session>>
    /\ IF ~HasMember(member_id) \/ ~HasItem(inventory_id)
       THEN /\ response' = NotFound
            /\ UNCHANGED inflight
       ELSE IF members[member_id].booking_count >= MAX_BOOKINGS
       THEN /\ response' = MemberCapacityExceeded
            /\ UNCHANGED inflight
       ELSE IF inventory[inventory_id].remaining_count <= 0
       THEN /\ response' = ItemCapacityExceeded
            /\ UNCHANGED inflight
       ELSE /\ NextBookingId + Cardinality(InFlight) <= MaxBookingId
            /\ inflight' =
                 [inflight EXCEPT ![request] =
                    [member_id |-> member_id, inventory_id |-> inventory_id,
                     booking_id |-> 0,
                     booking_count |-> members[member_id].booking_count + 1,
                     remaining_count |-> inventory[inventory_id].remaining_count - 1]]
            /\ response' = NoRequest

\* db.session.commit() of this request's book_item.
book_item_writes(request, commit_ok) ==
    /\ pc = "idle"
    /\ inflight[request] # NoSession
    /\ inflight' = [inflight EXCEPT ![request] = NoSession]
    /\ last' = NoBooking
    /\ UNCHANGED <<imported, pc, session>>
    /\ IF commit_ok
       THEN /\ bookings' = bookings \cup
                 {[id |-> NextBookingId, member_id |-> inflight[request].member_id,
                   inventory_id |-> inflight[request].inventory_id]}
            /\ members' =
                 [members EXCEPT ![inflight[request].member_id].booking_count =
                                     inflight[request].booking_count]
            /\ inventory' =
                 [inventory EXCEPT ![inflight[request].inventory_id].remaining_count =
                                       inflight[request].remaining_count]
            /\ response' = Booked(NextBookingId)
       ELSE /\ response' = Unhandled
            /\ UNCHANGED store

BookReads ==
    \E request \in Requests, member_id \in MemberIds, inventory_id \in InventoryIds :
        book_item_reads(request, member_id, inventory_id)
BookWrites ==
    \E request \in Requests, commit_ok \in BOOLEAN :
        book_item_writes(request, commit_ok)

NextConc == Import \/ BookReads \/ BookWrites

SpecConc == Init /\ [][NextConc]_vars

(***************************************************************************)
(* Properties.                                                             *)
(***************************************************************************)
MemberRowIds == 1..Len(members)
InventoryRowIds == 1..Len(inventory)

C2_CountAtMostMax ==
    \A m \in MemberRowIds : members[m].booking_count <= MAX_BOOKINGS

\* C3: every inventory item's remaining_count is at least 0.
C3_RemainingNonNegative ==
    \A i \in InventoryRowIds : inventory[i].remaining_count >= 0

\* C4: for every item, remaining_count plus the number of Booking rows that
\* reference the item equals the remaining_count it was imported with, and
\* an item imported with stock n >= 0 never has more than n bookings.
C4_StockConserved ==
    \A i \in InventoryRowIds :
        /\ inventory[i].remaining_count + Cardinality(BookingsOfItem(i))
             = imported.remaining_count[i]
        /\ imported.remaining_count[i] >= 0
             => Cardinality(BookingsOfItem(i)) <= imported.remaining_count[i]

C4_Witness ==
    \E i \in InventoryRowIds :
        /\ Cardinality(BookingsOfItem(i)) = 1
        /\ inventory[i].remaining_count = 1
        /\ response = Ok("Booking cancelled successfully")

\* C5: no member is referenced by more than MAX_BOOKINGS Booking rows.
C5_AtMostMaxBookings ==
    \A m \in MemberRowIds : Cardinality(BookingsOfMember(m)) <= MAX_BOOKINGS

\* C6: a successful create-booking immediately followed by the cancel of the
\* booking id it returned leaves the member's booking_count and the item's
\* remaining_count at the values read before the create, the cancel succeeds
\* and the Booking row is gone.
C6_RoundTrip ==
    last.kind = "cancelled" =>
        /\ response = Ok("Booking cancelled successfully")
        /\ members[last.member_id].booking_count = last.booking_count
        /\ inventory[last.inventory_id].remaining_count = last.remaining_count
        /\ ~HasBooking(last.booking_id)

C6_Witness == last.kind = "cancelled" /\ bookings # {}

\* C8: a create-booking whose member id or item id is not in the store
\* answers "Member or item not found" and changes no member, item or booking.
C8_BookNotFound ==
    [][\A member_id \in MemberIds, inventory_id \in InventoryIds :
          (/\ ~HasMember(member_id) \/ ~HasItem(inventory_id)
           /\ book_item(member_id, inventory_id))
          => response' = NotFound /\ UNCHANGED store]_vars

C8_Witness ==
    /\ response = NotFound
    /\ members # <<>>
    /\ inventory # <<>>
    /\ bookings # {}

\* C9 (as claimed): a create-booking by an existing member whose
\* booking_count is MAX_BOOKINGS or more answers "Maximum bookings reached"
\* and changes no member, item or booking.
C9_MemberAtLimitRejected ==
    [][\A member_id \in MemberIds, inventory_id \in InventoryIds :
          (/\ HasMember(member_id)
           /\ members[member_id].booking_count >= MAX_BOOKINGS
           /\ book_item(member_id, inventory_id))
          => response' = MemberCapacityExceeded /\ UNCHANGED store]_vars

\* C9 (amended): a create-booking for an existing item by an existing member
\* whose booking_count is MAX_BOOKINGS or more answers "Maximum bookings
\* reached"; whether or not the item exists, it changes no member, item or
\* booking.
C9_MemberAtLimitRejectedForItem ==
    [][\A member_id \in MemberIds, inventory_id \in InventoryIds :
          (/\ HasMember(member_id)
           /\ members[member_id].booking_count >= MAX_BOOKINGS
           /\ book_item(member_id, inventory_id))
          => /\ HasItem(inventory_id) => response' = MemberCapacityExceeded
             /\ response'.status # 200
             /\ UNCHANGED store]_vars

C9_Witness ==
    /\ response = MemberCapacityExceeded
    /\ \E m \in MemberRowIds :
          /\ members[m].booking_count = MAX_BOOKINGS
          /\ Cardinality(BookingsOfMember(m)) = MAX_BOOKINGS
    /\ \E i \in InventoryRowIds : inventory[i].remaining_count > 0

\* C10: a create-booking by an existing member below the limit for an
\* existing item whose remaining_count is 0 or less answers "Item not
\* available" and changes no member, item or booking.
C10_ItemSoldOutRejected ==
    [][\A member_id \in MemberIds, inventory_id \in InventoryIds :
          (/\ HasMember(member_id)
           /\ HasItem(inventory_id)
           /\ members[member_id].booking_count < MAX_BOOKINGS
           /\ inventory[inventory_id].remaining_count <= 0
           /\ book_item(member_id, inventory_id))
          => response' = ItemCapacityExceeded /\ UNCHANGED store]_vars

C10_Witness ==
    /\ response = ItemCapacityExceeded
    /\ \E i \in InventoryRowIds :
          /\ inventory[i].remaining_count = 0
          /\ BookingsOfItem(i) # {}
    /\ \E m \in MemberRowIds : members[m].booking_count < MAX_BOOKINGS

\* C7: the tables change only at a commit, and then by all three effects of
\* a create (Booking row inserted, booking_count one higher, remaining_count
\* one lower) or all three effects of a cancel (Booking row deleted,
\* booking_count one lower, remaining_count one higher); a create or cancel
\* that reports success has applied them.
BookEffects ==
    /\ ~HasBooking(response'.booking_id)
    /\ bookings' = bookings \cup
         {[id |-> response'.booking_id, member_id |-> session.member_id,
           inventory_id |-> session.inventory_id]}
    /\ members' = [members EXCEPT ![session.member_id].booking_count = @ + 1]
    /\ inventory' =
         [inventory EXCEPT ![session.inventory_id].remaining_count = @ - 1]

CancelEffects ==
    /\ HasBooking(session.booking_id)
    /\ bookings' = bookings \ {BookingRow(session.booking_id)}
    /\ members' =
         [members EXCEPT ![BookingRow(session.booking_id).member_id].booking_count
                             = @ - 1]
    /\ inventory' =
         [inventory EXCEPT
             ![BookingRow(session.booking_id).inventory_id].remaining_count = @ + 1]

C7_AtomicEffects ==
    [][\/ /\ pc = "idle" /\ pc' = "idle"
          /\ response' = Ok("Data imported successfully")
          /\ bookings' = bookings
       \/ /\ UNCHANGED store
          /\ pc # "idle" /\ pc' = "idle" => response'.status # 200
       \/ pc = "book_commit" /\ response'.status = 200 /\ BookEffects
       \/ pc = "cancel_commit" /\ response'.status = 200 /\ CancelEffects]_vars

C7_Witness ==
    /\ pc = "cancel_commit"
    /\ response = NoRequest
    /\ \E b \in bookings : b.id = session.booking_id /\ b.id > 1
    /\ members[session.member_id].booking_count = session.booking_count + 1

BookingNotFound == Err(404, "Booking not found")

\* C11: create-booking tests existence, then the member's limit, then the
\* item's stock, and reports the first test that fails: a missing member or
\* item gives "Member or item not found" whatever the counters are, a member
\* at the limit gives "Maximum bookings reached" even when the item is sold
\* out, and only then a sold-out item gives "Item not available"; the tables
\* change only when all three tests pass.  (A create-booking leaves
\* last.kind "book" or "none"; steps that leave another kind are skipped
\* before the inputs are tried.)
C11_ValidationOrder ==
    [][last'.kind \in {"book", "none"} =>
        \A member_id \in MemberIds, inventory_id \in InventoryIds :
          book_item(member_id, inventory_id) =>
            LET exist == HasMember(member_id) /\ HasItem(inventory_id)
                below == members[member_id].booking_count < MAX_BOOKINGS
                stock == inventory[inventory_id].remaining_count > 0
            IN  /\ ~exist => response' = NotFound
                /\ exist /\ ~below => response' = MemberCapacityExceeded
                /\ exist /\ below /\ ~stock => response' = ItemCapacityExceeded
                /\ ~(exist /\ below /\ stock) => UNCHANGED store]_vars

\* A member at the limit was refused for an item that is sold out: every
\* item is sold out, and the answer was not "Member or item not found".
C11_Witness ==
    /\ response = MemberCapacityExceeded
    /\ inventory # <<>>
    /\ \A i \in InventoryRowIds : inventory[i].remaining_count <= 0
    /\ \E i \in InventoryRowIds : BookingsOfItem(i) # {}

\* C12: a cancel-booking of a booking id that is not in the store answers
\* "Booking not found" and changes no member, item or booking.
C12_CancelNotFound ==
    [][\A booking_id \in BookingIds :
          (~HasBooking(booking_id) /\ cancel_booking(booking_id))
          => response' = BookingNotFound /\ UNCHANGED store]_vars

C12_Witness ==
    /\ response = BookingNotFound
    /\ bookings # {}

MemberNotFound == Err(404, "member.csv not found")
InventoryNotFound == Err(404, "inventory.csv not found")
ImportFailed == Err(500, "Import failed")
ImportDone == Ok("Data imported successfully")

\* C13: an import that does not find member.csv or inventory.csv answers
\* with that file's not-found error and leaves the store as it was; the
\* members the first pass parsed are not stored when inventory.csv is
\* missing.
C13_MissingSourceStoresNothing ==
    [][(last'.kind = "import" /\ last'.found # {"member.csv", "inventory.csv"})
       => /\ response' = IF "member.csv" \in last'.found
                         THEN InventoryNotFound ELSE MemberNotFound
          /\ UNCHANGED store]_vars

\* inventory.csv was missing after a member pass that parsed a row.
C13_Witness ==
    /\ last.kind = "import"
    /\ last.found = {"member.csv"}
    /\ last.valid_members >= 1
    /\ response = InventoryNotFound

\* The records that the sample rows with a date that parses stand for.
ValidMemberRecords ==
    {MemberOf(MemberRows[k]) : k \in ValidRows(MemberRows, "date_joined")}
ValidInventoryRecords ==
    {InventoryOf(InventoryRows[k]) : k \in ValidRows(InventoryRows, "expiration_date")}

\* C14: an import that commits adds exactly one record for every row read
\* whose date parses and none for a row whose date fails all formats, in
\* both passes: the tables grow by the number of such rows, and every record
\* added is the record of such a row.
C14_OneRecordPerValidRow ==
    [][(last'.kind = "import" /\ last'.commit = "done")
       => /\ response' = ImportDone
          /\ Len(members') = Len(members) + last'.valid_members
          /\ Len(inventory') = Len(inventory) + last'.valid_inventory
          /\ \A k \in (Len(members) + 1)..Len(members') :
                members'[k] \in ValidMemberRecords
          /\ \A k \in (Len(inventory) + 1)..Len(inventory') :
                inventory'[k] \in ValidInventoryRecords]_vars

\* An import went through although both passes met a failing row before a
\* row they stored.
C14_Witness ==
    /\ last.kind = "import"
    /\ last.commit = "done"
    /\ last.skipped = {"member", "inventory"}
    /\ last.valid_members >= 1
    /\ last.valid_inventory >= 1
    /\ response = ImportDone

\* C15: when the commit at the end of an import fails, the answer is the
\* "Import failed" error and the store holds exactly what it held before:
\* no member and no inventory record of either pass is kept.
C15_FailedCommitRollsBack ==
    [][(last'.kind = "import" /\ last'.commit = "failed")
       => response' = ImportFailed /\ UNCHANGED store]_vars

\* The commit failed with records of both passes in the session.
C15_Witness ==
    /\ last.kind = "import"
    /\ last.commit = "failed"
    /\ last.valid_members >= 1
    /\ last.valid_inventory >= 1
    /\ response = ImportFailed

\* C17: a booking goes absent -> exists -> absent.  A cancel that finds its
\* booking leaves no booking with that id; a booking id comes into the store
\* only as the answer of a create; and a cancel of the id the previous request
\* cancelled answers "Booking not found" and changes no counter and no row.
C17_CancelOnce ==
    [][\A booking_id \in BookingIds :
          /\ (HasBooking(booking_id) /\ cancel_booking(booking_id))
             => /\ response' = Ok("Booking cancelled successfully")
                /\ \A b \in bookings' : b.id # booking_id
          /\ (~HasBooking(booking_id) /\ \E b \in bookings' : b.id = booking_id)
             => response' = Booked(booking_id)
          /\ (/\ last.kind \in {"cancel", "cancelled"}
              /\ last.booking_id = booking_id
              /\ cancel_booking(booking_id))
             => response' = BookingNotFound /\ UNCHANGED store]_vars

\* The booking just cancelled was asked to be cancelled again, while other
\* bookings are in the store.
C17_Witness ==
    /\ last.kind = "again"
    /\ response = BookingNotFound
    /\ bookings # {}

\* C18: every booking in the store references a member and an inventory item
\* that are in the store.
C18_ReferentialIntegrity ==
    \A b \in bookings : HasMember(b.member_id) /\ HasItem(b.inventory_id)

\* Bookings are in the store, one was cancelled and an import has since
\* added rows.
C18_Witness ==
    /\ bookings # {}
    /\ last.kind = "import"
    /\ last.commit = "done"
    /\ last.valid_members >= 1
    /\ \E id \in 1..NextBookingId : ~HasBooking(id) /\ id < NextBookingId

\* Only the booking_count of this member differs between the two states.
OnlyMemberCount(member_id) ==
    /\ Len(members') = Len(members)
    /\ \A k \in MemberRowIds :
          IF k = member_id
          THEN [members'[k] EXCEPT !.booking_count = 0]
                 = [members[k] EXCEPT !.booking_count = 0]
          ELSE members'[k] = members[k]

\* Only the remaining_count of this item differs between the two states.
OnlyItemCount(inventory_id) ==
    /\ Len(inventory') = Len(inventory)
    /\ \A k \in InventoryRowIds :
          IF k = inventory_id
          THEN [inventory'[k] EXCEPT !.remaining_count = 0]
                 = [inventory[k] EXCEPT !.remaining_count = 0]
          ELSE inventory'[k] = inventory[k]

\* C19: a create-booking that changes the store adds one booking of its
\* member and item and changes nothing but that member's booking_count and
\* that item's remaining_count; a cancel-booking that changes the store
\* removes its booking and changes nothing but the counters of the member
\* and the item of that booking.  Every other member, item and booking is
\* the same before and after.
C19_Frame ==
    [][store' # store =>
        /\ \A member_id \in MemberIds, inventory_id \in InventoryIds :
              book_item(member_id, inventory_id) =>
                /\ bookings \subseteq bookings'
                /\ Cardinality(bookings' \ bookings) = 1
                /\ \A b \in bookings' \ bookings :
                      b.member_id = member_id /\ b.inventory_id = inventory_id
                /\ OnlyMemberCount(member_id)
                /\ OnlyItemCount(inventory_id)
        /\ \A booking_id \in BookingIds :
              cancel_booking(booking_id) =>
                /\ HasBooking(booking_id)
                /\ bookings' = bookings \ {BookingRow(booking_id)}
                /\ OnlyMemberCount(BookingRow(booking_id).member_id)
                /\ OnlyItemCount(BookingRow(booking_id).inventory_id)]_vars

\* A booking was created and cancelled while another member already held two
\* bookings of another item.
C19_Witness ==
    /\ last.kind = "cancelled"
    /\ \E m \in MemberRowIds, i \in InventoryRowIds :
          /\ m # last.member_id
          /\ i # last.inventory_id
          /\ Cardinality(BookingsOfMember(m) \cap BookingsOfItem(i)) = 2

\* C20: an import that commits keeps every member and inventory record
\* already stored, with its counter, and every booking, and appends one
\* record per valid row read, also when the same rows were imported before.
C20_ImportOnlyAppends ==
    [][(last'.kind = "import" /\ last'.commit = "done")
       => /\ bookings' = bookings
          /\ Len(members') = Len(members) + last'.valid_members
          /\ Len(inventory') = Len(inventory) + last'.valid_inventory
          /\ SubSeq(members', 1, Len(members)) = members
          /\ SubSeq(inventory', 1, Len(inventory)) = inventory]_vars

\* An import on a store with bookings added a member row and an inventory
\* row that an earlier import had already added.
C20_Witness ==
    /\ last.kind = "import"
    /\ last.commit = "done"
    /\ bookings # {}
    /\ last.valid_members >= 1
    /\ last.valid_inventory >= 1
    /\ \E k \in 1..(Len(members) - last.valid_members) :
          members[k].date_joined = members[Len(members)].date_joined
    /\ \E k \in 1..(Len(inventory) - last.valid_inventory) :
          inventory[k].expiration_date = inventory[Len(inventory)].expiration_date

\* C16 (as claimed, for rows imported with sound counters): when
\* create-booking requests interleave, a member imported with booking_count
\* 0 has a booking_count equal to the number of its bookings and at most
\* MAX_BOOKINGS, and an item imported with a stock of n >= 0 never has more
\* than n bookings.
C16_LockstepUnderInterleaving ==
    /\ \A m \in MemberRowIds :
          imported.booking_count[m] = 0 =>
            /\ members[m].booking_count = Cardinality(BookingsOfMember(m))
            /\ members[m].booking_count <= MAX_BOOKINGS
    /\ \A i \in InventoryRowIds :
          imported.remaining_count[i] >= 0 =>
            Cardinality(BookingsOfItem(i)) <= imported.remaining_count[i]

====
